---- MODULE Spec2Model ----
(***************************************************************************)
(* State-machine model of src/mcp_server.py: the license gate              *)
(* (validate_license_key) and the tool dispatcher (call_tool) of the       *)
(* cite-agent MCP server.  Every caller slot runs one call_tool            *)
(* invocation at a time; the steps of an invocation are cut at the places  *)
(* where the code waits on a collaborator (the license verifier, the       *)
(* cite-agent subprocess, the synthesis engine, the PDF download).         *)
(***************************************************************************)
EXTENDS Integers, FiniteSets, Sequences, TLC

\* ------------------------------------------------------------------ bounds
NumCallers == 2
MaxRequested == 11

\* ------------------------------------------------------- program constants
HTTP_OK == 200
DefaultMaxResults == 10
FreeMaxResults == 5

Callers == 1..NumCallers
Solo == {1}

\* ------------------------------------------------------------ tool catalog
FreeTool == "search_papers"
PaidTools == {"research_deep_dive", "get_zotero_papers", "read_arxiv_pdf",
              "verify_citation", "get_financial_data"}
Catalog == {FreeTool} \cup PaidTools
SubprocessTools == {"search_papers", "verify_citation", "get_financial_data"}
UnknownNames == {"no_such_tool", ""}
ToolNames == Catalog \cup UnknownNames
ConcNames == {"search_papers", "verify_citation"}

\* The key of the argument mapping each branch of call_tool subscripts.
RequiredKey(nm) ==
    CASE nm = "search_papers" -> "query"
      [] nm = "research_deep_dive" -> "question"
      [] nm = "get_zotero_papers" -> "query"
      [] nm = "read_arxiv_pdf" -> "url_or_id"
      [] nm = "verify_citation" -> "citation"
      [] nm = "get_financial_data" -> "query"
      [] OTHER -> ""

\* -------------------------------------------------------------- credential
\* os.getenv gives None when the variable is unset; "" when it is set empty.
KeyNone == "<None>"
Keys == {KeyNone, "", "license-key"}

\* `if not key`: None and the empty string are both falsy.
KeyIsNoneOnly(key) == key = KeyNone
NotKey(key) == key = KeyNone \/ key = ""

\* ------------------------------------------------------- argument mappings
Args(r, h, n) == [has_required |-> r, has_max |-> h, max_results |-> n]
NoArgs == Args(FALSE, FALSE, 0)
ArgsFor(nm) ==
    IF nm = FreeTool
    THEN {Args(r, TRUE, n) : r \in BOOLEAN, n \in 0..MaxRequested}
         \cup {Args(r, FALSE, 0) : r \in BOOLEAN}
    ELSE {Args(r, FALSE, 0) : r \in BOOLEAN}
WellFormedArgsFor(nm) == {Args(TRUE, FALSE, 0)}

\* ------------------------------------------------- verifier's HTTP answers
Resp(k, st, b, s, p, rf) ==
    [kind |-> k, status |-> st, body |-> b, success |-> s,
     purchase |-> p, refunded |-> rf]
NoResp == Resp("none", 0, "none", "absent", "absent", "absent")

\* What the verifier can answer for a license it holds valid and unrefunded.
ValidResponses ==
    {Resp("response", st, "object", "true", "absent", "absent") : st \in {200, 201}}
    \cup {Resp("response", st, "object", "true", "object", rf) :
             st \in {200, 201}, rf \in {"absent", "false"}}
RefundedResponses ==
    {Resp("response", 200, "object", "true", "object", "true")}
InvalidResponses ==
    {Resp("response", 404, "object", "false", "absent", "absent"),
     Resp("response", 200, "object", "false", "absent", "absent"),
     Resp("response", 200, "object", "absent", "absent", "absent")}
\* Failures of the exchange itself, whatever the license's standing.
FaultResponses ==
    {Resp("error", 0, "none", "absent", "absent", "absent"),
     Resp("timeout", 0, "none", "absent", "absent", "absent"),
     Resp("response", 500, "malformed", "absent", "absent", "absent"),
     Resp("response", 200, "malformed", "absent", "absent", "absent"),
     Resp("response", 200, "object", "true", "null", "absent")}
LicenseStates == {"valid", "invalid", "refunded"}
VerifierResponses(lic) ==
    FaultResponses \cup
    (CASE lic = "valid" -> ValidResponses
       [] lic = "refunded" -> RefundedResponses
       [] OTHER -> InvalidResponses)
\* One answer of each kind, for the runs with several callers.
CoreResponses(lic) ==
    {Resp("timeout", 0, "none", "absent", "absent", "absent")} \cup
    (CASE lic = "valid" -> {Resp("response", 200, "object", "true", "object", "false")}
       [] lic = "refunded" -> RefundedResponses
       [] OTHER -> {Resp("response", 404, "object", "false", "absent", "absent")})

\* ------------------------------------------------------------ tool results
Result(k, l, e, m) == [kind |-> k, label |-> l, exc |-> e, mentions |-> m]
NoResult == Result("none", "", "", "")
TextOutput(l) == Result("text", l, "", "")
LockedNotice(nm) == Result("locked", "PRO Feature Locked", "", nm)
ErrorNotice(l, e, m) == Result("error", l, e, m)

Cmd(p, h, n) == [prompt |-> p, has_count |-> h, count |-> n]
NoCmd == Cmd("", FALSE, 0)
Proc(s, rc) == [state |-> s, returncode |-> rc]
NoProc == Proc("none", 0)
ExitCodes == {0, 1, 2}

Min(a, b) == IF a < b THEN a ELSE b

VARIABLES API_KEY, license, pc, name, arguments, resp, is_pro, result,
          cmd, proc, agent, response, raised, verifyCalls, delegCalls

vars == <<API_KEY, license, pc, name, arguments, resp, is_pro, result,
          cmd, proc, agent, response, raised, verifyCalls, delegCalls>>

Init ==
    /\ API_KEY \in Keys
    /\ license \in LicenseStates
    /\ pc = [i \in Callers |-> "idle"]
    /\ name = [i \in Callers |-> ""]
    /\ arguments = [i \in Callers |-> NoArgs]
    /\ resp = [i \in Callers |-> NoResp]
    /\ is_pro = [i \in Callers |-> FALSE]
    /\ result = [i \in Callers |-> NoResult]
    /\ cmd = [i \in Callers |-> NoCmd]
    /\ proc = [i \in Callers |-> NoProc]
    /\ agent = [i \in Callers |-> "none"]
    /\ response = [i \in Callers |-> "none"]
    /\ raised = [i \in Callers |-> ""]
    /\ verifyCalls = [i \in Callers |-> 0]
    /\ delegCalls = [i \in Callers |-> 0]

\* ------------------------------------------------------------ license gate
\* The value validate_license_key returns once client.post has ended with r:
\* any exception of the exchange, of resp.json() or of a .get on a non-mapping
\* is swallowed to False; a status other than 200 is False.
ValidateIgnoringRefund(r) ==
    /\ r.kind = "response"
    /\ r.status = HTTP_OK
    /\ r.body = "object"
    /\ r.success = "true"
Validate(r) ==
    /\ r.kind = "response"
    /\ r.status = HTTP_OK
    /\ r.body = "object"
    /\ r.success = "true"
    /\ \/ r.purchase = "absent"
       \/ r.purchase = "object" /\ r.refunded # "true"

\* Where validate_license_key goes once the request has ended: it returns.
PcAfterVerifyRetry(r) == IF r.kind \in {"error", "timeout"} THEN "validate" ELSE "gate"
PcAfterVerify(r) == "gate"

\* The entitlement an invocation enforces: the local is_pro of call_tool.
Verified(j) == pc[j] \notin {"idle", "validate", "await_post"}
IsProShared(i, r) ==
    IF \E j \in Callers \ {i} : Verified(j)
    THEN \E j \in Callers \ {i} : Verified(j) /\ is_pro[j]
    ELSE Validate(r)
IsPro(i, r) == Validate(r)

\* `name != "search_papers" and not is_pro`
GatedButFinancial(nm, pro) == nm \notin {FreeTool, "get_financial_data"} /\ ~pro
Gated(nm, pro) == nm # FreeTool /\ ~pro

\* max_results = arguments.get("max_results", 10); clamped when not entitled.
Requested(a) == IF a.has_max THEN a.max_results ELSE DefaultMaxResults
EffectiveCountUnclamped(a, pro) == Requested(a)
EffectiveCount(a, pro) ==
    IF ~pro THEN Min(Requested(a), FreeMaxResults) ELSE Requested(a)

\* ---------------------------------------------------- exception handlers
Outcome(p, res) == [pc |-> p, result |-> res]
\* except Exception as e (the outer handler of call_tool)
OuterExceptValueErrorOnly(e, m) ==
    IF e = "Unknown tool" THEN Outcome("done", ErrorNotice("System Error", e, m))
    ELSE Outcome("escaped", NoResult)
OuterExcept(e, m) == Outcome("done", ErrorNotice("System Error", e, m))
\* the handler inside the research_deep_dive branch
IntegrationExcept(e, m) == Outcome("done", ErrorNotice("Integration Error", e, m))
\* the handler inside the get_zotero_papers branch
ZoteroExcept(e, m) == Outcome("done", ErrorNotice("Zotero Error", e, m))
Returns(res) == Outcome("done", res)

Leave(i, o) ==
    /\ pc' = [pc EXCEPT ![i] = o.pc]
    /\ result' = [result EXCEPT ![i] = o.result]

\* ------------------------------------------------------------- call_tool
\* A caller invokes call_tool(nm, a); the first thing it does is to call
\* validate_license_key(API_KEY).
CallTool(i, nm, a) ==
    /\ pc[i] = "idle"
    /\ pc' = [pc EXCEPT ![i] = "validate"]
    /\ name' = [name EXCEPT ![i] = nm]
    /\ arguments' = [arguments EXCEPT ![i] = a]
    /\ UNCHANGED <<API_KEY, license, resp, is_pro, result, cmd, proc, agent, response,
                   raised, verifyCalls, delegCalls>>

\* validate_license_key: `if not key: return False`
ValidateNoKey(i) ==
    /\ pc[i] = "validate"
    /\ NotKey(API_KEY)
    /\ is_pro' = [is_pro EXCEPT ![i] = FALSE]
    /\ pc' = [pc EXCEPT ![i] = "gate"]
    /\ UNCHANGED <<API_KEY, license, name, arguments, resp, result, cmd, proc,
                   agent, response, raised, verifyCalls, delegCalls>>

\* validate_license_key: client.post(...) is issued and awaited.
PostVerify(i) ==
    /\ pc[i] = "validate"
    /\ ~NotKey(API_KEY)
    /\ verifyCalls' = [verifyCalls EXCEPT ![i] = @ + 1]
    /\ pc' = [pc EXCEPT ![i] = "await_post"]
    /\ UNCHANGED <<API_KEY, license, name, arguments, resp, is_pro, result, cmd,
                   proc, agent, response, raised, delegCalls>>

\* The request ends (answer, network error or timeout) and
\* validate_license_key returns to call_tool, which binds is_pro.
PostReturns(i, answers) ==
    /\ pc[i] = "await_post"
    /\ \E r \in answers :
          /\ resp' = [resp EXCEPT ![i] = r]
          /\ is_pro' = [is_pro EXCEPT ![i] = IsPro(i, r)]
          /\ pc' = [pc EXCEPT ![i] = PcAfterVerify(r)]
    /\ UNCHANGED <<API_KEY, license, name, arguments, result, cmd, proc, agent, response,
                   raised, verifyCalls, delegCalls>>

\* The monetization gate: a locked notice, or on into the try block.
Gate(i) ==
    /\ pc[i] = "gate"
    /\ IF Gated(name[i], is_pro[i])
       THEN Leave(i, Returns(LockedNotice(name[i])))
       ELSE /\ pc' = [pc EXCEPT ![i] = "try"]
            /\ UNCHANGED result
    /\ UNCHANGED <<API_KEY, license, name, arguments, resp, is_pro, cmd, proc,
                   agent, response, raised, verifyCalls, delegCalls>>

\* --------------------------------------------- the subprocess-backed tools
\* Spawn of the cite-agent command line: subprocess.run(cmd, ..., timeout=60)
Spawn(i, c) ==
    /\ cmd' = [cmd EXCEPT ![i] = c]
    /\ delegCalls' = [delegCalls EXCEPT ![i] = @ + 1]
    /\ pc' = [pc EXCEPT ![i] = "subprocess"]
    /\ UNCHANGED result

\* A missing required key: arguments[...] raises KeyError inside the try.
MissingKey(i) == ~arguments[i].has_required

SearchPapers(i) ==
    /\ pc[i] = "try"
    /\ name[i] = "search_papers"
    /\ IF MissingKey(i)
       THEN /\ Leave(i, OuterExcept("KeyError", RequiredKey(name[i])))
            /\ UNCHANGED <<cmd, delegCalls>>
       ELSE Spawn(i, Cmd("Find academic papers on", TRUE,
                         EffectiveCount(arguments[i], is_pro[i])))
    /\ UNCHANGED <<API_KEY, license, name, arguments, resp, is_pro, proc, agent, response,
                   raised, verifyCalls>>

VerifyCitation(i) ==
    /\ pc[i] = "try"
    /\ name[i] = "verify_citation"
    /\ IF MissingKey(i)
       THEN /\ Leave(i, OuterExcept("KeyError", RequiredKey(name[i])))
            /\ UNCHANGED <<cmd, delegCalls>>
       ELSE Spawn(i, Cmd("Verify this citation", FALSE, 0))
    /\ UNCHANGED <<API_KEY, license, name, arguments, resp, is_pro, proc, agent, response,
                   raised, verifyCalls>>

GetFinancialData(i) ==
    /\ pc[i] = "try"
    /\ name[i] = "get_financial_data"
    /\ IF MissingKey(i)
       THEN /\ Leave(i, OuterExcept("KeyError", RequiredKey(name[i])))
            /\ UNCHANGED <<cmd, delegCalls>>
       ELSE Spawn(i, Cmd("query", FALSE, 0))
    /\ UNCHANGED <<API_KEY, license, name, arguments, resp, is_pro, proc, agent, response,
                   raised, verifyCalls>>

\* subprocess.run ends: the process exited (any status; check= is not set, so
\* the status is not looked at and stdout is returned), or run raised
\* (TimeoutExpired after 60 s, FileNotFoundError when the command is absent).
SubprocessExceptions == {"TimeoutExpired", "FileNotFoundError"}
SubprocessReturns(i) ==
    /\ pc[i] = "subprocess"
    /\ \/ \E rc \in ExitCodes :
             /\ proc' = [proc EXCEPT ![i] = Proc("completed", rc)]
             /\ Leave(i, Returns(TextOutput("stdout")))
             /\ UNCHANGED raised
       \/ \E e \in SubprocessExceptions :
             /\ proc' = [proc EXCEPT ![i] = Proc("raised", 0)]
             /\ raised' = [raised EXCEPT ![i] = e]
             /\ Leave(i, OuterExcept(e, ""))
    /\ UNCHANGED <<API_KEY, license, name, arguments, resp, is_pro, cmd, agent, response,
                   verifyCalls, delegCalls>>

\* ------------------------------------------------------ research_deep_dive
\* The import of the engine, EnhancedNocturnalAgent() and the call of
\* agent.initialize(), which is awaited.
ResearchDeepDive(i) ==
    /\ pc[i] = "try"
    /\ name[i] = "research_deep_dive"
    /\ \/ /\ raised' = [raised EXCEPT ![i] = "ImportError"]
          /\ Leave(i, IntegrationExcept("ImportError", ""))
          /\ UNCHANGED <<agent, delegCalls>>
       \/ /\ agent' = [agent EXCEPT ![i] = "initializing"]
          /\ delegCalls' = [delegCalls EXCEPT ![i] = @ + 1]
          /\ pc' = [pc EXCEPT ![i] = "agent_initialize"]
          /\ UNCHANGED <<result, raised>>
    /\ UNCHANGED <<API_KEY, license, name, arguments, resp, is_pro, cmd, proc,
                   response, verifyCalls>>

\* initialize() ends; then ChatRequest(question=arguments["question"]) and
\* the call of agent.process_request(req), which is awaited.
AgentInitialized(i) ==
    /\ pc[i] = "agent_initialize"
    /\ agent' = [agent EXCEPT ![i] = "open"]
    /\ \/ /\ raised' = [raised EXCEPT ![i] = "InitializeError"]
          /\ Leave(i, IntegrationExcept("InitializeError", ""))
       \/ /\ IF MissingKey(i)
             THEN Leave(i, IntegrationExcept("KeyError", RequiredKey(name[i])))
             ELSE /\ pc' = [pc EXCEPT ![i] = "agent_process"]
                  /\ UNCHANGED result
          /\ UNCHANGED raised
    /\ UNCHANGED <<API_KEY, license, name, arguments, resp, is_pro, cmd, proc,
                   response, verifyCalls, delegCalls>>

\* process_request ends: a response, a response carrying error_message, or
\* an exception; on a response agent.close() is called and awaited.
AgentAnswers == {"response", "error_message"}
AgentProcessed(i) ==
    /\ pc[i] = "agent_process"
    /\ \/ /\ raised' = [raised EXCEPT ![i] = "ProcessError"]
          /\ Leave(i, IntegrationExcept("ProcessError", ""))
          /\ UNCHANGED response
       \/ \E ans \in AgentAnswers :
             /\ response' = [response EXCEPT ![i] = ans]
             /\ pc' = [pc EXCEPT ![i] = "agent_close"]
             /\ UNCHANGED <<result, raised>>
    /\ UNCHANGED <<API_KEY, license, name, arguments, resp, is_pro, cmd, proc,
                   agent, verifyCalls, delegCalls>>

\* close() ends; the answer is turned into the result.
AgentClosed(i) ==
    /\ pc[i] = "agent_close"
    /\ agent' = [agent EXCEPT ![i] = "closed"]
    /\ \/ /\ raised' = [raised EXCEPT ![i] = "CloseError"]
          /\ Leave(i, IntegrationExcept("CloseError", ""))
       \/ /\ IF response[i] = "error_message"
             THEN Leave(i, Returns(ErrorNotice("Agent Error", "error_message", "")))
             ELSE Leave(i, Returns(TextOutput("Deep Research Synthesis")))
          /\ UNCHANGED raised
    /\ UNCHANGED <<API_KEY, license, name, arguments, resp, is_pro, cmd, proc,
                   response, verifyCalls, delegCalls>>

\* ------------------------------------------------------- get_zotero_papers
\* pyzotero is synchronous: the import, zotero.Zotero(...) and zot.top(q=...)
\* run in one step; every exception is caught by the branch's own handler.
GetZoteroPapers(i) ==
    /\ pc[i] = "try"
    /\ name[i] = "get_zotero_papers"
    /\ \/ /\ raised' = [raised EXCEPT ![i] = "ImportError"]
          /\ Leave(i, ZoteroExcept("ImportError", ""))
          /\ UNCHANGED delegCalls
       \/ /\ delegCalls' = [delegCalls EXCEPT ![i] = @ + 1]
          /\ IF MissingKey(i)
             THEN /\ Leave(i, ZoteroExcept("KeyError", RequiredKey(name[i])))
                  /\ UNCHANGED raised
             ELSE \/ /\ raised' = [raised EXCEPT ![i] = "ZoteroApiError"]
                     /\ Leave(i, ZoteroExcept("ZoteroApiError", ""))
                  \/ /\ Leave(i, Returns(TextOutput("zotero items")))
                     /\ UNCHANGED raised
    /\ UNCHANGED <<API_KEY, license, name, arguments, resp, is_pro, cmd, proc,
                   agent, response, verifyCalls>>

\* ---------------------------------------------------------- read_arxiv_pdf
\* The imports, arguments["url_or_id"], and the GET of the PDF, awaited.
ReadArxivPdf(i) ==
    /\ pc[i] = "try"
    /\ name[i] = "read_arxiv_pdf"
    /\ \/ /\ raised' = [raised EXCEPT ![i] = "ImportError"]
          /\ Leave(i, OuterExcept("ImportError", ""))
          /\ UNCHANGED delegCalls
       \/ /\ IF MissingKey(i)
             THEN /\ Leave(i, OuterExcept("KeyError", RequiredKey(name[i])))
                  /\ UNCHANGED delegCalls
             ELSE /\ delegCalls' = [delegCalls EXCEPT ![i] = @ + 1]
                  /\ pc' = [pc EXCEPT ![i] = "pdf_get"]
                  /\ UNCHANGED result
          /\ UNCHANGED raised
    /\ UNCHANGED <<API_KEY, license, name, arguments, resp, is_pro, cmd, proc,
                   agent, response, verifyCalls>>

\* The GET ends: an exception, a status other than 200, or the PDF, whose
\* text extraction may raise.
PdfExceptions == {"ConnectError", "PdfReadError"}
PdfGetReturns(i) ==
    /\ pc[i] = "pdf_get"
    /\ \/ \E e \in PdfExceptions :
             /\ raised' = [raised EXCEPT ![i] = e]
             /\ Leave(i, OuterExcept(e, ""))
       \/ /\ Leave(i, Returns(ErrorNotice("Failed to download PDF", "status", "")))
          /\ UNCHANGED raised
       \/ /\ Leave(i, Returns(TextOutput("Full Text (First 10 pages)")))
          /\ UNCHANGED raised
    /\ UNCHANGED <<API_KEY, license, name, arguments, resp, is_pro, cmd, proc,
                   agent, response, verifyCalls, delegCalls>>

\* ------------------------------------------------------------ unknown name
\* else: raise ValueError(f"Unknown tool: {name}"), caught by the outer handler.
UnknownTool(i) ==
    /\ pc[i] = "try"
    /\ name[i] \notin Catalog
    /\ Leave(i, OuterExcept("Unknown tool", name[i]))
    /\ UNCHANGED <<API_KEY, license, name, arguments, resp, is_pro, cmd, proc,
                   agent, response, raised, verifyCalls, delegCalls>>

\* ------------------------------------------------------------------ return
\* The result is handed to the caller; every local of the invocation is gone.
Return(i) ==
    /\ pc[i] = "done"
    /\ pc' = [pc EXCEPT ![i] = "idle"]
    /\ name' = [name EXCEPT ![i] = ""]
    /\ arguments' = [arguments EXCEPT ![i] = NoArgs]
    /\ resp' = [resp EXCEPT ![i] = NoResp]
    /\ is_pro' = [is_pro EXCEPT ![i] = FALSE]
    /\ result' = [result EXCEPT ![i] = NoResult]
    /\ cmd' = [cmd EXCEPT ![i] = NoCmd]
    /\ proc' = [proc EXCEPT ![i] = NoProc]
    /\ agent' = [agent EXCEPT ![i] = "none"]
    /\ response' = [response EXCEPT ![i] = "none"]
    /\ raised' = [raised EXCEPT ![i] = ""]
    /\ verifyCalls' = [verifyCalls EXCEPT ![i] = 0]
    /\ delegCalls' = [delegCalls EXCEPT ![i] = 0]
    /\ UNCHANGED <<API_KEY, license>>

\* ------------------------------------------------------------- environment
\* The verifier's view of the license changes (purchase, refund, revocation).
LicenseChanges ==
    /\ \E l \in LicenseStates \ {license} : license' = l
    /\ UNCHANGED <<API_KEY, pc, name, arguments, resp, is_pro, result, cmd, proc,
                   agent, response, raised, verifyCalls, delegCalls>>

\* ---------------------------------------------------------- specifications
\* One caller, invocation after invocation, every name and argument mapping.
Next ==
    \E i \in Solo :
        \/ \E nm \in ToolNames : \E a \in ArgsFor(nm) : CallTool(i, nm, a)
        \/ ValidateNoKey(i)
        \/ PostVerify(i)
        \/ PostReturns(i, VerifierResponses(license))
        \/ Gate(i)
        \/ SearchPapers(i)
        \/ VerifyCitation(i)
        \/ GetFinancialData(i)
        \/ SubprocessReturns(i)
        \/ ResearchDeepDive(i)
        \/ AgentInitialized(i)
        \/ AgentProcessed(i)
        \/ AgentClosed(i)
        \/ GetZoteroPapers(i)
        \/ ReadArxivPdf(i)
        \/ PdfGetReturns(i)
        \/ UnknownTool(i)
        \/ Return(i)
        \/ LicenseChanges
Spec == Init /\ [][Next]_vars

\* Several callers whose invocations interleave at the awaits; the callers
\* ask for the free tool and for one paid tool, with well-formed arguments.
NextConc ==
    \E i \in Callers :
        \/ \E nm \in ConcNames : \E a \in WellFormedArgsFor(nm) : CallTool(i, nm, a)
        \/ ValidateNoKey(i)
        \/ PostVerify(i)
        \/ PostReturns(i, CoreResponses(license))
        \/ Gate(i)
        \/ SearchPapers(i)
        \/ VerifyCitation(i)
        \/ SubprocessReturns(i)
        \/ Return(i)
        \/ LicenseChanges
SpecConc == Init /\ [][NextConc]_vars

\* ------------------------------------------------------------------ claims
\* Some step of invocation i can be taken.
CanProceed(i) ==
    ENABLED (\/ ValidateNoKey(i) \/ PostVerify(i)
             \/ PostReturns(i, VerifierResponses(license)) \/ Gate(i)
             \/ SearchPapers(i) \/ VerifyCitation(i) \/ GetFinancialData(i)
             \/ SubprocessReturns(i) \/ ResearchDeepDive(i) \/ AgentInitialized(i)
             \/ AgentProcessed(i) \/ AgentClosed(i) \/ GetZoteroPapers(i)
             \/ ReadArxivPdf(i) \/ PdfGetReturns(i) \/ UnknownTool(i))

KeyConfigured == API_KEY \notin {KeyNone, ""}

\* An answer with status 200, a true success flag, and a purchase that is
\* absent or an object whose refunded flag is false or absent.
EntitlingAnswer(r) ==
    /\ r.kind = "response"
    /\ r.status = 200
    /\ r.body = "object"
    /\ r.success = "true"
    /\ r.purchase \in {"absent", "object"}
    /\ r.refunded \in {"absent", "false"}

\* The same with any status of the 2xx class.
SuccessStatusAnswer(r) ==
    /\ r.kind = "response"
    /\ r.status \in 200..299
    /\ r.body = "object"
    /\ r.success = "true"
    /\ r.purchase \in {"absent", "object"}
    /\ r.refunded \in {"absent", "false"}

\* C1: a paid tool invoked while the entitlement of that invocation is false
\* ends with the locked notice, and at no point of the invocation is a
\* collaborator (subprocess, engine, library, download) called.
C1_LockedWithoutDelegation ==
    \A i \in Callers :
        (Verified(i) /\ name[i] \in PaidTools /\ ~is_pro[i]) =>
            /\ delegCalls[i] = 0
            /\ pc[i] \in {"gate", "done"}
            /\ cmd[i] = NoCmd /\ proc[i] = NoProc /\ agent[i] = "none"
            /\ pc[i] = "done" => result[i] = LockedNotice(name[i])
C1_Witness ==
    \E i \in Callers :
        /\ pc[i] = "done" /\ name[i] = "get_financial_data" /\ ~is_pro[i]
        /\ result[i].kind = "locked" /\ delegCalls[i] = 0

\* C2 (as stated): with a non-empty credential, validate_license_key returns
\* true exactly when the answer has an HTTP success status, a true success
\* flag and a refund flag that is false or absent.
C2_TrueIffSuccessStatus ==
    \A i \in Callers :
        (Verified(i) /\ KeyConfigured) => (is_pro[i] <=> SuccessStatusAnswer(resp[i]))
\* C2 (amended): the same with the status being exactly 200; every other
\* outcome gives false and the invocation goes on to the gate (no raise).
C2_TrueIffStatus200 ==
    \A i \in Callers :
        /\ (Verified(i) /\ KeyConfigured) => (is_pro[i] <=> EntitlingAnswer(resp[i]))
        /\ (pc[i] = "await_post") => CanProceed(i)
        /\ pc[i] # "escaped"
C2_Witness ==
    \E i \in Callers :
        /\ pc[i] = "gate" /\ KeyConfigured /\ is_pro[i]
        /\ resp[i].status = 200 /\ resp[i].refunded = "false"

\* C3: a name outside the catalog is answered with an error result that
\* contains the name, entitled or not (never with the locked notice).
C3_UnknownNameIsError ==
    \A i \in Callers :
        (pc[i] = "done" /\ name[i] \notin Catalog) =>
            /\ result[i].kind = "error"
            /\ result[i].mentions = name[i]

\* C4: every invocation ends with one textual result (text, locked or error);
\* when the collaborator raised, the result is an error notice carrying that
\* exception's message; no exception escapes call_tool, and no invocation
\* is stuck before its result.
C4_AlwaysTextualResult ==
    \A i \in Callers :
        /\ pc[i] # "escaped"
        /\ pc[i] = "done" => result[i].kind \in {"text", "locked", "error"}
        /\ pc[i] # "done" => result[i] = NoResult
        /\ (pc[i] = "done" /\ raised[i] # "") =>
              (result[i].kind = "error" /\ result[i].exc = raised[i])
        /\ pc[i] \notin {"idle", "done"} => CanProceed(i)
C4_Witness ==
    \E i \in Callers :
        /\ pc[i] = "done" /\ raised[i] = "TimeoutExpired"
        /\ result[i] = ErrorNotice("System Error", "TimeoutExpired", "")

\* C5: when the subprocess of search_papers, verify_citation or
\* get_financial_data exits with a non-zero status, the result is an error
\* notice.
C5_NonZeroExitIsError ==
    \A i \in Callers :
        (/\ pc[i] = "done" /\ name[i] \in SubprocessTools
         /\ proc[i].state = "completed" /\ proc[i].returncode # 0) =>
            result[i].kind = "error"

C7_NoKeyNoRequest ==
    (API_KEY \in {KeyNone, ""}) =>
        \A i \in Callers :
            /\ verifyCalls[i] = 0
            /\ resp[i] = NoResp
            /\ pc[i] # "await_post"
            /\ Verified(i) => ~is_pro[i]
C7_Witness ==
    /\ API_KEY = ""
    /\ \E i \in Callers : pc[i] = "done" /\ verifyCalls[i] = 0 /\ ~is_pro[i]

\* C8: an invocation issues at most one verification request and at most one
\* delegation, and the delegation starts only once the verification is over.
C8_VerifyThenDelegate ==
    \A i \in Callers :
        /\ verifyCalls[i] <= 1
        /\ delegCalls[i] <= 1
        /\ pc[i] \in {"validate", "await_post"} => delegCalls[i] = 0
        /\ (KeyConfigured /\ delegCalls[i] = 1) =>
              (verifyCalls[i] = 1 /\ resp[i] # NoResp)
C8_Witness ==
    \E i \in Callers :
        /\ verifyCalls[i] = 1 /\ delegCalls[i] = 1 /\ pc[i] = "subprocess"

\* C9: with a credential configured, every invocation (the free one too) issues
\* its own verification request and enforces the answer to that request only:
\* a paid invocation is locked when its own answer does not entitle, and
\* reaches delegation when it does, whatever other invocations were answered.
C9_OwnVerification ==
    KeyConfigured =>
        \A i \in Callers :
            Verified(i) =>
                /\ verifyCalls[i] = 1
                /\ resp[i] # NoResp
                /\ is_pro[i] <=> EntitlingAnswer(resp[i])
                /\ (pc[i] = "done" /\ name[i] \in PaidTools) =>
                      IF EntitlingAnswer(resp[i])
                      THEN /\ result[i].kind # "locked"
                           /\ (name[i] \in SubprocessTools /\ arguments[i].has_required)
                                 => delegCalls[i] = 1
                      ELSE result[i].kind = "locked" /\ delegCalls[i] = 0
C9_Witness ==
    \E i \in Callers : \E j \in Callers \ {i} :
        /\ pc[i] = "done" /\ pc[j] = "done"
        /\ name[i] \in PaidTools /\ name[j] \in PaidTools
        /\ EntitlingAnswer(resp[i]) /\ ~EntitlingAnswer(resp[j])
        /\ result[i].kind = "text" /\ delegCalls[i] = 1
        /\ result[j].kind = "locked"

\* C10: once the engine of research_deep_dive has been created and
\* initialize called, close has been called by the time the invocation ends.
C10_EngineClosedAtReturn ==
    \A i \in Callers :
        (pc[i] = "done" /\ agent[i] # "none") => agent[i] = "closed"

====
